---- MODULE Spec2Model ----
(***************************************************************************)
(* The recursive-descent HTML parser of src/src/parser.rs as a state       *)
(* machine.  One parse of one input: the byte cursor (stream.idx), the     *)
(* call stack of the parser's methods, the value returned by the last      *)
(* finished call and the tree built so far.  Every loop iteration of       *)
(* parse, parse_tag, parse_attributes, read_to, read_while and read_ident  *)
(* is one step.                                                            *)
(***************************************************************************)
EXTENDS Integers, Sequences, FiniteSets, TLC

\* Longest input enumerated byte by byte over Alphabet.
MaxLen == 4

\* Largest n for which `<p>` repeated n times is an input.
MaxNest == 4

\* Bytes the enumerated inputs are built from ("NUL" stands for byte 0).
Alphabet == {"<", ">", "/", "=", "\"", " ", "p", "NUL"}

LOWER ==
  <<"a","b","c","d","e","f","g","h","i","j","k","l","m","n","o","p","q","r",
    "s","t","u","v","w","x","y","z">>

UPPER ==
  <<"A","B","C","D","E","F","G","H","I","J","K","L","M","N","O","P","Q","R",
    "S","T","U","V","W","X","Y","Z">>

Letters == {LOWER[i] : i \in 1..26} \cup {UPPER[i] : i \in 1..26}

Digits == {"0","1","2","3","4","5","6","7","8","9"}

\* util::is_ident: alphanumeric, '-' or '_'.
is_ident(ch) == ch \in Letters \cup Digits \cup {"-", "_"}

END_OF_TAG == <<"<", "/">>

SELF_CLOSING == <<"/", ">">>

\* skip_whitespaces that skips newlines only.
WHITESPACE_newline_only == <<"\n">>

\* The set skip_whitespaces passes to read_while.
WHITESPACE == <<" ", "\n">>

\* The terminator parse_single passes to read_to for raw text.
RAW_TERMINATOR == <<"<">>

\* The quotes parse_attribute accepts.
QUOTES == <<"\"", "'">>

\* slice::contains
contains(s, ch) == \E i \in 1..Len(s) : s[i] = ch

(***************************************************************************)
(* The inputs of the tests and of the documented scenarios.                *)
(***************************************************************************)
\* abc <p>test</p> def
In_inner_html ==
  <<"a","b","c"," ","<","p",">","t","e","s","t","<","/","p",">"," ","d","e",
    "f">>

\* <a></b> hello
In_mismatch_hello ==
  <<"<","a",">","<","/","b",">"," ","h","e","l","l","o">>

\* <a></b>
In_mismatch_b ==
  <<"<","a",">","<","/","b",">">>

\* <a></A>
In_mismatch_case ==
  <<"<","a",">","<","/","A",">">>

\* <a id="u54423"><iframe allowfullscreen></iframe></a>
In_valueless ==
  <<"<","a"," ","i","d","=","\"","u","5","4","4","2","3","\"",">","<","i",
    "f","r","a","m","e"," ","a","l","l","o","w","f","u","l","l","s","c","r",
    "e","e","n",">","<","/","i","f","r","a","m","e",">","<","/","a",">">>

\* <a id=u54423>Hello World</a>
In_unquoted ==
  <<"<","a"," ","i","d","=","u","5","4","4","2","3",">","H","e","l","l","o",
    " ","W","o","r","l","d","<","/","a",">">>

\* <p>x
In_px ==
  <<"<","p",">","x">>

\* <p 
In_abrupt ==
  <<"<","p"," ">>

\* <p>hello <p>nested element</p></p>
In_nested ==
  <<"<","p",">","h","e","l","l","o"," ","<","p",">","n","e","s","t","e","d",
    " ","e","l","e","m","e","n","t","<","/","p",">","<","/","p",">">>

\* <div></div><p id="test"></p><p></p>
In_by_id ==
  <<"<","d","i","v",">","<","/","d","i","v",">","<","p"," ","i","d","=",
    "\"","t","e","s","t","\"",">","<","/","p",">","<","p",">","<","/","p",
    ">">>

\* <img src="test.png" />
In_img ==
  <<"<","i","m","g"," ","s","r","c","=","\"","t","e","s","t",".","p","n",
    "g","\""," ","/",">">>

\* J\0<
In_fuzz_nul ==
  <<"J","NUL","<">>

\* <!J
In_fuzz_bang ==
  <<"<","!","J">>

Scenarios ==
  {In_inner_html, In_mismatch_hello, In_mismatch_b, In_mismatch_case,
   In_valueless, In_unquoted, In_px, In_abrupt, In_nested, In_by_id,
   In_img, In_fuzz_nul, In_fuzz_bang}

RECURSIVE Strings(_)
\* Every byte sequence over Alphabet of length n.
Strings(n) ==
  IF n = 0 THEN {<<>>}
  ELSE {Append(s, c) : s \in Strings(n - 1), c \in Alphabet}

RECURSIVE Repeat(_, _)
\* str::repeat
Repeat(s, n) == IF n = 0 THEN <<>> ELSE s \o Repeat(s, n - 1)

\* The fuzz test's input: `<p>` repeated n times.
OpenP == <<"<", "p", ">">>

Inputs ==
  Scenarios \cup UNION {Strings(n) : n \in 0..MaxLen}
            \cup {Repeat(OpenP, n) : n \in 1..MaxNest}

VARIABLES input, idx, stack, ret, tree, status, lastRead

vars == <<input, idx, stack, ret, tree, status, lastRead>>

(***************************************************************************)
(* Values.                                                                 *)
(***************************************************************************)
None == [some |-> FALSE]

Some(v) == [some |-> TRUE, val |-> v]

EmptyAttr == [k \in {} |-> <<>>]

\* HashMap::insert
insert(attr, k, v) ==
  [x \in DOMAIN attr \cup {k} |-> IF x = k THEN v ELSE attr[x]]

\* HTMLTag::new
HTMLTag(name, attr, children) ==
  [name |-> name, attr |-> attr, flags |-> 0, children |-> children]

NodeTag(t) == [type |-> "Tag", tag |-> t]

NodeRaw(r) == [type |-> "Raw", raw |-> r]

(***************************************************************************)
(* The byte cursor (crate::stream::Stream).                                *)
(***************************************************************************)
is_eof == idx >= Len(input)

current_cpy == IF idx < Len(input) THEN Some(input[idx + 1]) ELSE None

Min(a, b) == IF a < b THEN a ELSE b

\* Stream::slice: clamped to the buffer.
slice(from, to) == SubSeq(input, Min(from, Len(input)) + 1, Min(to, Len(input)))

slice_unchecked(from, to) == SubSeq(input, from + 1, to)

\* Stream::expect_and_skip succeeds iff the current byte is `expect`.
expects(expect) == idx < Len(input) /\ input[idx + 1] = expect

\* Stream::expect_oneof_and_skip succeeds iff the current byte is one of them.
expects_oneof(set) == idx < Len(input) /\ contains(set, input[idx + 1])

(***************************************************************************)
(* The call stack.                                                         *)
(***************************************************************************)
Frame(pc, start) ==
  [pc |-> pc, start |-> start, terminator |-> <<>>, name |-> <<>>,
   attr |-> EmptyAttr, children |-> <<>>, is_self_closing |-> FALSE,
   skip_current |-> FALSE]

top == stack[Len(stack)]

At(pc) == status = "running" /\ top.pc = pc

Goto(f) == stack' = [stack EXCEPT ![Len(stack)] = f]

Call(caller, callee) ==
  stack' = Append([stack EXCEPT ![Len(stack)] = caller], callee)

Return(v) == stack' = SubSeq(stack, 1, Len(stack) - 1) /\ ret' = v

skip_whitespaces(start) == [Frame("read_while", start) EXCEPT !.terminator = WHITESPACE]

Init ==
  /\ input \in Inputs
  /\ idx = 0
  /\ stack = <<Frame("parse", 0)>>
  /\ ret = None
  /\ tree = <<>>
  /\ status = "running"
  /\ lastRead = -1

(***************************************************************************)
(* read_to, read_while, read_ident: one step per loop iteration.           *)
(***************************************************************************)
\* read_to that slices one byte too late.
read_to_result_off_by_one(start, end) == slice_unchecked(start + 1, end)

\* What read_to returns for the span it scanned.
read_to_result(start, end) == slice_unchecked(start, end)

read_to ==
  /\ At("read_to")
  /\ IF is_eof
     THEN /\ Return(read_to_result(top.start, idx))
          /\ UNCHANGED <<idx, lastRead>>
     ELSE /\ lastRead' = idx
          /\ IF contains(top.terminator, input[idx + 1])
             THEN Return(read_to_result(top.start, idx)) /\ UNCHANGED idx
             ELSE idx' = idx + 1 /\ UNCHANGED <<stack, ret>>
  /\ UNCHANGED <<input, tree, status>>

read_while ==
  /\ At("read_while")
  /\ IF is_eof
     THEN Return(ret) /\ UNCHANGED <<idx, lastRead>>
     ELSE /\ lastRead' = idx
          /\ IF ~contains(top.terminator, input[idx + 1])
             THEN Return(ret) /\ UNCHANGED idx
             ELSE idx' = idx + 1 /\ UNCHANGED <<stack, ret>>
  /\ UNCHANGED <<input, tree, status>>

\* What read_ident returns when the loop ends at end of input.
read_ident_at_eof(start, end) == None

read_ident ==
  /\ At("read_ident")
  /\ IF is_eof
     THEN Return(read_ident_at_eof(top.start, idx)) /\ UNCHANGED idx
     ELSE IF ~is_ident(current_cpy.val)
          THEN Return(Some(slice_unchecked(top.start, idx))) /\ UNCHANGED idx
          ELSE idx' = idx + 1 /\ UNCHANGED <<stack, ret>>
  /\ UNCHANGED <<input, tree, status, lastRead>>

(***************************************************************************)
(* parse_attribute                                                         *)
(***************************************************************************)
parse_attribute ==
  /\ At("parse_attribute")
  /\ Call([top EXCEPT !.pc = "parse_attribute:name"], Frame("read_ident", idx))
  /\ UNCHANGED <<input, idx, ret, tree, status, lastRead>>

parse_attribute_name ==
  /\ At("parse_attribute:name")
  /\ IF ~ret.some
     THEN Return(None)
     ELSE /\ Call([top EXCEPT !.pc = "parse_attribute:eq", !.name = ret.val],
                  skip_whitespaces(idx))
          /\ UNCHANGED ret
  /\ UNCHANGED <<input, idx, tree, status, lastRead>>

parse_attribute_eq ==
  /\ At("parse_attribute:eq")
  /\ IF ~expects("=")
     THEN Return(None) /\ UNCHANGED idx
     ELSE /\ idx' = idx + 1
          /\ Call([top EXCEPT !.pc = "parse_attribute:quote"],
                  skip_whitespaces(idx + 1))
          /\ UNCHANGED ret
  /\ UNCHANGED <<input, tree, status, lastRead>>

parse_attribute_quote ==
  /\ At("parse_attribute:quote")
  /\ IF ~expects_oneof(QUOTES)
     THEN Return(None) /\ UNCHANGED idx
     ELSE /\ idx' = idx + 1
          /\ Call([top EXCEPT !.pc = "parse_attribute:value"],
                  [Frame("read_to", idx + 1) EXCEPT
                     !.terminator = <<input[idx + 1]>>])
          /\ UNCHANGED ret
  /\ UNCHANGED <<input, tree, status, lastRead>>

parse_attribute_value ==
  /\ At("parse_attribute:value")
  /\ Return(Some(<<top.name, ret>>))
  /\ UNCHANGED <<input, idx, tree, status, lastRead>>

(***************************************************************************)
(* parse_attributes                                                        *)
(***************************************************************************)
parse_attributes ==
  /\ At("parse_attributes")
  /\ IF is_eof
     THEN Return(top.attr)
     ELSE /\ Call([top EXCEPT !.pc = "parse_attributes:cur"],
                  skip_whitespaces(idx))
          /\ UNCHANGED ret
  /\ UNCHANGED <<input, idx, tree, status, lastRead>>

\* The rest of the iteration once current_unchecked has produced `cur`.
parse_attributes_on(cur) ==
  /\ IF contains(SELF_CLOSING, cur)
     THEN Return(top.attr)
     ELSE /\ Call([top EXCEPT !.pc = "parse_attributes:got"],
                  Frame("parse_attribute", idx))
          /\ UNCHANGED ret
  /\ UNCHANGED status

\* `let cur = self.stream.current_unchecked()` with the cursor in bounds.
parse_attributes_cur ==
  /\ At("parse_attributes:cur")
  /\ idx < Len(input)
  /\ lastRead' = idx
  /\ parse_attributes_on(input[idx + 1])
  /\ UNCHANGED <<input, idx, tree>>

\* The same read with the cursor at or past the end of the input: the
\* indexing panics, or an unchecked read yields whatever byte lies there.
parse_attributes_cur_oob ==
  /\ At("parse_attributes:cur")
  /\ idx >= Len(input)
  /\ lastRead' = idx
  /\ \/ status' = "panic" /\ UNCHANGED <<stack, ret>>
     \/ \E cur \in Alphabet : parse_attributes_on(cur)
  /\ UNCHANGED <<input, idx, tree>>

parse_attributes_got ==
  /\ At("parse_attributes:got")
  /\ Goto([top EXCEPT
             !.pc = "parse_attributes",
             !.attr = IF ret.some
                      THEN insert(top.attr, ret.val[1], ret.val[2])
                      ELSE top.attr])
  /\ idx' = idx + 1
  /\ UNCHANGED <<input, ret, tree, status, lastRead>>

(***************************************************************************)
(* parse_tag                                                               *)
(***************************************************************************)
\* `self.stream.next()?`: the cursor moves on by one; none at end of input.
next_is_some == idx + 1 < Len(input)

parse_tag ==
  /\ At("parse_tag")
  /\ IF top.skip_current
     THEN /\ idx' = idx + 1
          /\ IF next_is_some
             THEN /\ Call([top EXCEPT !.pc = "parse_tag:name"],
                          Frame("read_ident", idx + 1))
                  /\ UNCHANGED ret
             ELSE Return(None)
     ELSE /\ Call([top EXCEPT !.pc = "parse_tag:name"],
                  Frame("read_ident", idx))
          /\ UNCHANGED <<idx, ret>>
  /\ UNCHANGED <<input, tree, status, lastRead>>

parse_tag_name ==
  /\ At("parse_tag:name")
  /\ IF ~ret.some
     THEN Return(None)
     ELSE /\ Call([top EXCEPT !.pc = "parse_tag:attr", !.name = ret.val],
                  Frame("parse_attributes", idx))
          /\ UNCHANGED ret
  /\ UNCHANGED <<input, idx, tree, status, lastRead>>

parse_tag_attr ==
  /\ At("parse_tag:attr")
  /\ LET is_self_closing == expects("/")
         after == IF is_self_closing THEN idx + 1 ELSE idx
     IN /\ idx' = after
        /\ Call([top EXCEPT !.pc = "parse_tag:close", !.attr = ret,
                            !.is_self_closing = is_self_closing],
                skip_whitespaces(after))
  /\ UNCHANGED <<input, ret, tree, status, lastRead>>

parse_tag_close ==
  /\ At("parse_tag:close")
  /\ IF ~expects(">")
     THEN Return(None) /\ UNCHANGED idx
     ELSE /\ idx' = idx + 1
          /\ IF top.is_self_closing
             THEN Return(Some(HTMLTag(top.name, top.attr, top.children)))
             ELSE Goto([top EXCEPT !.pc = "parse_tag:loop"]) /\ UNCHANGED ret
  /\ UNCHANGED <<input, tree, status, lastRead>>

\* parse_tag that demands an end marker.
parse_tag_at_eof_none(name, attr, children) == None

\* What parse_tag returns when the child loop ends because the input ended.
parse_tag_at_eof(name, attr, children) == Some(HTMLTag(name, attr, children))

parse_tag_loop ==
  /\ At("parse_tag:loop")
  /\ IF is_eof
     THEN Return(parse_tag_at_eof(top.name, top.attr, top.children))
     ELSE /\ Call([top EXCEPT !.pc = "parse_tag:body"], skip_whitespaces(idx))
          /\ UNCHANGED ret
  /\ UNCHANGED <<input, idx, tree, status, lastRead>>

parse_tag_body ==
  /\ At("parse_tag:body")
  /\ IF slice(idx, idx + Len(END_OF_TAG)) = END_OF_TAG
     THEN /\ idx' = idx + Len(END_OF_TAG)
          /\ Call([top EXCEPT !.pc = "parse_tag:end"],
                  Frame("read_ident", idx + Len(END_OF_TAG)))
     ELSE /\ Call([top EXCEPT !.pc = "parse_tag:child"],
                  Frame("parse_single", idx))
          /\ UNCHANGED idx
  /\ UNCHANGED <<input, ret, tree, status, lastRead>>

to_ascii_lowercase(ch) ==
  IF \E i \in 1..26 : UPPER[i] = ch
  THEN LOWER[CHOOSE i \in 1..26 : UPPER[i] = ch]
  ELSE ch

\* An end-tag comparison that ignores ASCII case.
ident_eq_ignore_ascii_case(ident, name) ==
  /\ Len(ident) = Len(name)
  /\ \A i \in 1..Len(ident) :
       to_ascii_lowercase(ident[i]) = to_ascii_lowercase(name[i])

\* `ident.eq(name)`: byte-for-byte equality of the two slices.
ident_eq(ident, name) == ident = name

parse_tag_end ==
  /\ At("parse_tag:end")
  /\ IF ret.some /\ ident_eq(ret.val, top.name) /\ expects(">")
     THEN /\ idx' = idx + 1
          /\ Return(Some(HTMLTag(top.name, top.attr, top.children)))
     ELSE Return(None) /\ UNCHANGED idx
  /\ UNCHANGED <<input, tree, status, lastRead>>

parse_tag_child ==
  /\ At("parse_tag:child")
  /\ IF ~ret.some
     THEN Return(None)
     ELSE /\ Goto([top EXCEPT !.pc = "parse_tag:loop",
                              !.children = Append(top.children, ret.val)])
          /\ UNCHANGED ret
  /\ UNCHANGED <<input, idx, tree, status, lastRead>>

(***************************************************************************)
(* parse_single                                                            *)
(***************************************************************************)
parse_single ==
  /\ At("parse_single")
  /\ Call([top EXCEPT !.pc = "parse_single:cur"], skip_whitespaces(idx))
  /\ UNCHANGED <<input, idx, ret, tree, status, lastRead>>

\* The arm `b'<'` of the match in parse_single.
is_tag_start(ch) == ch = "<"

parse_single_cur ==
  /\ At("parse_single:cur")
  /\ IF ~current_cpy.some
     THEN Return(None)
     ELSE /\ IF is_tag_start(current_cpy.val)
             THEN Call([top EXCEPT !.pc = "parse_single:tag"],
                       [Frame("parse_tag", idx) EXCEPT !.skip_current = TRUE])
             ELSE Call([top EXCEPT !.pc = "parse_single:raw"],
                       [Frame("read_to", idx) EXCEPT
                          !.terminator = RAW_TERMINATOR])
          /\ UNCHANGED ret
  /\ UNCHANGED <<input, idx, tree, status, lastRead>>

\* `self.parse_tag(true).and_then(|x| Some(Node::Tag(x)))`
parse_single_tag ==
  /\ At("parse_single:tag")
  /\ Return(IF ret.some THEN Some(NodeTag(ret.val)) ELSE None)
  /\ UNCHANGED <<input, idx, tree, status, lastRead>>

parse_single_raw ==
  /\ At("parse_single:raw")
  /\ Return(Some(NodeRaw(ret)))
  /\ UNCHANGED <<input, idx, tree, status, lastRead>>

(***************************************************************************)
(* parse                                                                   *)
(***************************************************************************)
parse ==
  /\ At("parse")
  /\ Call([top EXCEPT !.pc = "parse:got"], Frame("parse_single", idx))
  /\ UNCHANGED <<input, idx, ret, tree, status, lastRead>>

parse_got ==
  /\ At("parse:got")
  /\ IF ret.some
     THEN /\ tree' = Append(tree, ret.val)
          /\ Goto([top EXCEPT !.pc = "parse"])
          /\ UNCHANGED status
     ELSE /\ status' = "done"
          /\ UNCHANGED <<tree, stack>>
  /\ UNCHANGED <<input, idx, ret, lastRead>>

Next ==
  \/ read_to
  \/ read_while
  \/ read_ident
  \/ parse_attribute
  \/ parse_attribute_name
  \/ parse_attribute_eq
  \/ parse_attribute_quote
  \/ parse_attribute_value
  \/ parse_attributes
  \/ parse_attributes_cur
  \/ parse_attributes_cur_oob
  \/ parse_attributes_got
  \/ parse_tag
  \/ parse_tag_name
  \/ parse_tag_attr
  \/ parse_tag_close
  \/ parse_tag_loop
  \/ parse_tag_body
  \/ parse_tag_end
  \/ parse_tag_child
  \/ parse_single
  \/ parse_single_cur
  \/ parse_single_tag
  \/ parse_single_raw
  \/ parse
  \/ parse_got

Spec == Init /\ [][Next]_vars

(***************************************************************************)
(* Properties.                                                             *)
(***************************************************************************)
Done == status = "done"

RECURSIVE RawsNonEmpty(_)
\* Every Raw node of the forest, at any depth, holds at least one byte.
RawsNonEmpty(nodes) ==
  \A i \in 1..Len(nodes) :
    IF nodes[i].type = "Raw"
    THEN Len(nodes[i].raw) >= 1
    ELSE RawsNonEmpty(nodes[i].tag.children)

RECURSIVE RawsTrimmed(_)
\* Every Raw node of the forest starts with a byte that is neither a space
\* nor a newline, and holds no `<`.
RawsTrimmed(nodes) ==
  \A i \in 1..Len(nodes) :
    IF nodes[i].type = "Raw"
    THEN /\ Len(nodes[i].raw) >= 1
         /\ nodes[i].raw[1] \notin {" ", "\n"}
         /\ \A j \in 1..Len(nodes[i].raw) : nodes[i].raw[j] # "<"
    ELSE RawsTrimmed(nodes[i].tag.children)

IsInfix(s, t) ==
  \E i \in 0..(Len(t) - Len(s)) : SubSeq(t, i + 1, i + Len(s)) = s

RECURSIVE PChain(_)
\* A Tag p holding a chain of n - 1 nested Tag p nodes.
PChain(n) ==
  NodeTag(HTMLTag(<<"p">>, EmptyAttr,
                  IF n = 1 THEN <<>> ELSE <<PChain(n - 1)>>))

HasAttr(tag, k, v) == k \in DOMAIN tag.attr /\ tag.attr[k] = v

U54423 == <<"u", "5", "4", "4", "2", "3">>

\* C1: for every input parse runs to its end and returns a tree; it never
\* stops without one.
C1_ParseReturnsTree == status \in {"running", "done"}

\* C2: every unchecked read of the current byte is at an index below the
\* input length.
C2_ReadsInBounds == lastRead < Len(input)

\* C3: a tag that fails to parse does not end the parse: parse stops only at
\* the end of the input, and for `<a></b> hello` the returned tree holds the
\* text `hello`.
C3_MalformedDoesNotAbort ==
  Done =>
    /\ idx >= Len(input)
    /\ input = In_mismatch_hello =>
         \E i \in 1..Len(tree) :
           /\ tree[i].type = "Raw"
           /\ IsInfix(<<"h", "e", "l", "l", "o">>, tree[i].raw)

\* C4: `<a id="u54423"><iframe allowfullscreen></iframe></a>` parses to
\* Tag a with id = u54423 whose child is Tag iframe.
C4_ValuelessAttribute ==
  (Done /\ input = In_valueless) =>
    /\ Len(tree) = 1
    /\ tree[1].type = "Tag"
    /\ tree[1].tag.name = <<"a">>
    /\ HasAttr(tree[1].tag, <<"i", "d">>, U54423)
    /\ Len(tree[1].tag.children) = 1
    /\ tree[1].tag.children[1].type = "Tag"
    /\ tree[1].tag.children[1].tag.name = <<"i", "f", "r", "a", "m", "e">>

\* C5: `<a id=u54423>Hello World</a>` parses to Tag a with id = u54423 whose
\* only child is Raw `Hello World`.
C5_UnquotedAttribute ==
  (Done /\ input = In_unquoted) =>
    /\ Len(tree) = 1
    /\ tree[1].type = "Tag"
    /\ tree[1].tag.name = <<"a">>
    /\ HasAttr(tree[1].tag, <<"i", "d">>, U54423)
    /\ tree[1].tag.children =
         <<NodeRaw(<<"H", "e", "l", "l", "o", " ", "W", "o", "r", "l", "d">>)>>

TagPTest == NodeTag(HTMLTag(<<"p">>, EmptyAttr, <<NodeRaw(<<"t", "e", "s", "t">>)>>))

\* C6 as stated: `abc <p>test</p> def` parses to Raw `abc `, Tag p [Raw
\* `test`], Raw ` def` with its leading space.
C6_Original ==
  (Done /\ input = In_inner_html) =>
    tree = <<NodeRaw(<<"a", "b", "c", " ">>), TagPTest,
             NodeRaw(<<" ", "d", "e", "f">>)>>

\* C6 amended: `abc <p>test</p> def` parses to Raw `abc `, Tag p [Raw
\* `test`], Raw `def`; in every tree a Raw node starts with a byte that is
\* not whitespace and runs up to the next `<` or the end of the input.
C6_Amended ==
  Done =>
    /\ RawsTrimmed(tree)
    /\ input = In_inner_html =>
         tree = <<NodeRaw(<<"a", "b", "c", " ">>), TagPTest,
                  NodeRaw(<<"d", "e", "f">>)>>

C6_Witness == Done /\ input = In_inner_html /\ Len(tree) = 3

C7_EndTagStep ==
  /\ At("parse_tag:end") =>
       /\ (ret.some /\ ret.val # top.name) => ~ret'.some
       /\ ret'.some =>
            /\ ret.some /\ ret.val = top.name
            /\ idx' >= Len(top.name) + 3
            /\ SubSeq(input, idx' - Len(top.name) - 2, idx')
                 = END_OF_TAG \o top.name \o <<">">>
  /\ (status' = "done" /\ input' \in {In_mismatch_b, In_mismatch_case}) =>
       tree' = <<>>

\* C7: when `</` is followed by an identifier that differs from the open
\* tag's name, parse_tag yields none; it yields a Tag through an end marker
\* only when the input there reads `</name>`.  `<a></b>` and `<a></A>` give
\* no Tag.
C7_MismatchedEndTag == [][C7_EndTagStep]_vars

C7_Witness == Done /\ input = In_mismatch_case /\ tree = <<>> /\ idx = 6

\* C8: read_ident returns none only when it consumed nothing; an identifier
\* that runs to the end of the input is returned.
C8_ReadIdentAtEof ==
  [][(At("read_ident") /\ Len(stack') < Len(stack)) =>
       /\ ~ret'.some => idx = top.start
       /\ idx > top.start => ret' = Some(slice_unchecked(top.start, idx))]_vars

\* C9: no Raw node, in the tree or among the children collected so far at
\* any depth, is empty.
C9_NoEmptyRaw ==
  /\ RawsNonEmpty(tree)
  /\ \A i \in 1..Len(stack) : RawsNonEmpty(stack[i].children)

C9_Witness ==
  /\ Done
  /\ input = In_nested
  /\ Len(tree) = 1
  /\ Len(tree[1].tag.children) = 2

C10_EofStep ==
  /\ (At("parse_tag:loop") /\ is_eof) =>
       ret' = Some(HTMLTag(top.name, top.attr, top.children))
  /\ status' = "done" =>
       /\ \A n \in 1..MaxNest :
            input' = Repeat(OpenP, n) => tree' = <<PChain(n)>>
       /\ input' = In_px =>
            tree' = <<NodeTag(HTMLTag(<<"p">>, EmptyAttr, <<NodeRaw(<<"x">>)>>))>>

\* C10: when the input ends in parse_tag's child loop, parse_tag returns the
\* Tag with the children parsed so far; `<p>` repeated n times gives one Tag p
\* holding a chain of n - 1 nested Tag p, and `<p>x` gives Tag p [Raw `x`].
C10_UnclosedTagAtEof == [][C10_EofStep]_vars

C10_Witness ==
  /\ Done
  /\ input = Repeat(OpenP, MaxNest)
  /\ tree = <<PChain(MaxNest)>>
====
